---- MODULE Spec2Model ----
(***************************************************************************)
(* FinAgent: the Agent Client (services/geminiService.ts), the App state   *)
(* (transactions, audit log, selection) and the Agent Panel with its       *)
(* auto-pilot plan runner (components/AgentPanel.tsx).                      *)
(*                                                                         *)
(* JavaScript values are records tagged by "t" (the typeof / null tag).    *)
(* A string is either prose, [t |-> "string", s |-> ...], or the text of a *)
(* JSON document, [t |-> "string", json |-> v], where v is the value that  *)
(* JSON.parse yields for it.                                               *)
(***************************************************************************)
EXTENDS Integers, Sequences, FiniteSets, TLC

VARIABLES
    userApiKey,        \* geminiService.ts module variable
    localStorage,      \* localStorage['user_gemini_api_key']
    envApiKey,         \* process.env.API_KEY
    clientCall,        \* an Agent Client operation called directly, in flight
    clientResult,      \* how the last direct call settled
    session,           \* how the current session began: the user key the previous
                       \* one ended with, and the one module initialisation read
    transactions,      \* App state: status of every transaction
    selectedId,        \* App state
    auditLogs,         \* App state
    loading,           \* AgentPanel state ...
    analysis,
    emailDraft,
    rectificationNote,
    prediction,
    autoPilotActive,
    autoPilotPlan,
    currentStepIndex,
    effectDeps,        \* [transaction.id, transaction.status] of the last reset effect
    predictions,       \* predictResolutionLikelihood calls in flight
    calls,             \* handleAnalyze / handleDraftEmail / handleRectify invocations
    runs               \* handleAutoResolve invocations

clientVars == <<userApiKey, localStorage, envApiKey>>
harnessVars == <<clientCall, clientResult, session>>
appVars == <<transactions, selectedId, auditLogs>>
panelVars == <<loading, analysis, emailDraft, rectificationNote, prediction,
               autoPilotActive, autoPilotPlan, currentStepIndex, effectDeps,
               predictions>>
vars == <<clientVars, harnessVars, appVars, panelVars, calls, runs>>

---------------------------------------------------------------------------
(* Bounds *)

MaxPlanLen == 1      \* longest plan a live model response carries
MaxRuns == 1         \* auto-pilot runs started in one behaviour
MaxPending == 1      \* background predictions in flight when one more is started
MaxCalls == 1        \* manual analyses, drafts and rectifications in one behaviour
MaxDemoCalls == 2    \* the same, in a behaviour in demo mode

---------------------------------------------------------------------------
(* JavaScript values *)

Undefined == [t |-> "undefined"]
Null == [t |-> "null"]
Str(s) == [t |-> "string", s |-> s]
Num(n) == [t |-> "number", n |-> n]
Arr(items) == [t |-> "array", items |-> items]
JsonText(v) == [t |-> "string", json |-> v]
\* a string given as the sequence of the pieces it is the concatenation of
Text(parts) == [t |-> "string", parts |-> parts]
EmptyObject == [t |-> "object"]

\* JavaScript truthiness of the values used here
Truthy(v) == /\ v.t \notin {"undefined", "null"}
             /\ v # Str("")

\* text.startsWith(needle), for a needle that is one of the pieces
StartsWith(text, needle) ==
    IF "parts" \in DOMAIN text THEN Len(text.parts) > 0 /\ text.parts[1] = needle
    ELSE "s" \in DOMAIN text /\ text.s = needle

\* text.includes(needle), for a needle that is one of the pieces
Includes(text, needle) ==
    IF "parts" \in DOMAIN text THEN \E k \in DOMAIN text.parts : text.parts[k] = needle
    ELSE "s" \in DOMAIN text /\ text.s = needle

\* text.trim(), of the strings typed here
Trim(text) == IF text = Str("   ") THEN Str("") ELSE text

\* a ?? b: only null and undefined give way
OrNullish(a, b) == IF a.t \in {"undefined", "null"} THEN b ELSE a

\* a || b
Or(a, b) == IF Truthy(a) THEN a ELSE b

\* v.k of a value that is neither null nor undefined
Prop(v, k) == IF k \in DOMAIN v THEN v[k] ELSE Undefined

\* completion of a piece of code: a value, or an exception
Return(v) == [threw |-> FALSE, value |-> v]
Throw(e) == [threw |-> TRUE, value |-> Str(e)]

\* v.k as an expression: a TypeError on null and undefined
ReadProp(v, k) == IF v.t \in {"undefined", "null"} THEN Throw("TypeError")
                  ELSE Return(Prop(v, k))

\* JSON.parse(text)
JSONParse(text) == IF "json" \in DOMAIN text THEN Return(text.json)
                   ELSE Throw("SyntaxError")

\* the body without its try/catch
TryWithoutCatch(body, handler) == body

\* try { body } catch { handler }
TryCatch(body, handler) == IF body.threw THEN handler ELSE body

\* the promise of an async function whose body completed with r
Settle(r) == [settled |-> IF r.threw THEN "rejected" ELSE "resolved",
              value |-> r.value]

---------------------------------------------------------------------------
(* Seed data (constants.ts) and types (types.ts) *)

Statuses == {"CLEARED", "FAILED", "RECTIFYING", "RECTIFIED"}

AgentRole == [AUDITOR |-> "AUDITOR", LIAISON |-> "LIAISON",
              CONTROLLER |-> "CONTROLLER", SYSTEM |-> "AUTO_AGENT"]

INITIAL_TRANSACTIONS ==
    <<[id |-> "TXN-8832-ALPHA", invoiceId |-> "INV-2024-001", status |-> "FAILED"],
      [id |-> "TXN-9941-BETA", invoiceId |-> "INV-GLP-992", status |-> "CLEARED"],
      [id |-> "TXN-7721-GAMMA", invoiceId |-> "INV-OS-7721", status |-> "FAILED"],
      [id |-> "TXN-3321-DELTA", invoiceId |-> "INV-ZM-331", status |-> "RECTIFYING"],
      [id |-> "TXN-1102-EPSILON", invoiceId |-> "INV-TF-1102", status |-> "RECTIFIED"]>>

TxnIds == {INITIAL_TRANSACTIONS[i].id : i \in DOMAIN INITIAL_TRANSACTIONS}

INITIAL_AUDIT_LOGS ==
    <<[transactionId |-> "TXN-8832-ALPHA", agent |-> AgentRole.AUDITOR,
       action |-> "Transaction Failed"],
      [transactionId |-> "TXN-3321-DELTA", agent |-> AgentRole.AUDITOR,
       action |-> "Duplicate Flag"],
      [transactionId |-> "TXN-3321-DELTA", agent |-> AgentRole.LIAISON,
       action |-> "Vendor Contacted"]>>

---------------------------------------------------------------------------
(* What the hosted model can answer *)

PlanActions == {"ANALYZE", "EMAIL_VENDOR", "RECTIFY"}
\* a tag the model may invent; the response is not validated against types.ts
OtherAction == "ESCALATE"

Step(a) == [t |-> "object", action |-> Str(a)]
Plan(steps, reasoning) ==
    [t |-> "object", steps |-> Arr(steps), reasoning |-> Str(reasoning)]

SeqsUpTo(S, n) == UNION {[1..k -> S] : k \in 0..n}

ModelPlans == {Plan(ss, "Strategy") :
                  ss \in SeqsUpTo({Step(a) : a \in PlanActions \cup {OtherAction}},
                                  MaxPlanLen)}

ModelDrafts ==
    {[t |-> "object", subject |-> Str("Payment issue"), body |-> Str("Dear vendor")],
     [t |-> "object", subject |-> Str("Payment issue")],
     [t |-> "object", subject |-> Num(7), body |-> Str("Dear vendor")]}

ModelPredictions ==
    {[t |-> "object", score |-> Num(72), label |-> Str("High"),
      rationale |-> Str("Routing errors resolve quickly")],
     [t |-> "object", score |-> Num(150), label |-> Str("High"),
      rationale |-> Str("Certain")],
     [t |-> "object", score |-> Num(40), label |-> Str("Unlikely"),
      rationale |-> Str("Vendor unresponsive")]}

\* answers of the controller persona: "APPROVED: ...", "REJECTED: ...", and
\* one that has the word after a negation
ValidationTexts == {Text(<<"APPROVED", ": The adjustment resolves the failure.">>),
                    Text(<<"REJECTED", ": The adjustment does not address the failure.">>),
                    Text(<<"NOT ", "APPROVED", ": the amounts still differ.">>)}

ProseTexts == ValidationTexts
              \cup {Str("The routing number on file does not match the bank record.")}

\* response.text of a call that came back, per kind of answer
EmptyTexts == {Undefined, Str("")}
ShapelessJson == {JsonText(EmptyObject), JsonText(Null)}
JsonTexts(values) == {JsonText(v) : v \in values}

ModelTexts == EmptyTexts \cup ProseTexts \cup ShapelessJson
              \cup JsonTexts(ModelPlans \cup ModelDrafts \cup ModelPredictions)

\* outcome of ai.models.generateContent: it rejects, or it carries a text
Outcomes(texts) == {[fail |-> TRUE]} \cup {[fail |-> FALSE, text |-> x] : x \in texts}
ModelOutcomes == Outcomes(ModelTexts)

\* await ai.models.generateContent(...)
generateContent(out) == IF out.fail THEN Throw("ApiError")
                        ELSE Return([t |-> "object", text |-> out.text])

---------------------------------------------------------------------------
(* Agent Client: credential (geminiService.ts) *)

\* keys the user can type into the settings dialog; "" clears
UserKeys == {"", "AIza-user", "AIza-new"}
\* process.env.API_KEY as the build can supply it
EnvKeys == {Undefined, Str(""), Str("AIza-env")}

\* the environment key tried first
getClientEnvFirst ==
    LET key == Or(envApiKey, userApiKey)
    IN  IF ~Truthy(key) THEN Null
        ELSE [t |-> "object", apiKey |-> key]

\* Priority: User Input -> Env Var
getClient ==
    LET key == Or(userApiKey, envApiKey)
    IN  IF ~Truthy(key) THEN Null
        ELSE [t |-> "object", apiKey |-> key]

\* the key stored whatever it is, the empty one too
setApiKeyNeverRemoving(key) ==
    /\ userApiKey' = Str(key)
    /\ localStorage' = Str(key)
    /\ UNCHANGED envApiKey

\* the key kept in memory only
setApiKeyUnstored(key) ==
    /\ userApiKey' = Str(key)
    /\ UNCHANGED <<localStorage, envApiKey>>

setApiKey(key) ==
    /\ userApiKey' = Str(key)
    /\ localStorage' = IF Truthy(Str(key)) THEN Str(key) ELSE Null
    /\ UNCHANGED envApiKey

---------------------------------------------------------------------------
(* Agent Client: operations.  ai is what getClient returned when the       *)
(* operation was called, out is the outcome of its model call.             *)

DemoText(name, transaction) == [t |-> "string", s |-> name, transaction |-> transaction]

analyzeFailure(ai, transaction, out) ==
    IF ~Truthy(ai)
    THEN Return(DemoText("## DEMO MODE ANALYSIS", transaction))
    ELSE TryCatch(
           LET response == generateContent(out)
           IN  IF response.threw THEN response
               ELSE Return(Or(response.value.text, Str("Unable to generate analysis."))),
           Return(Str("Error connecting to Auditor Agent. Please check API configuration.")))

\* the catch block returning an empty object
draftVendorEmailEmptyCatch(ai, transaction, out) ==
    IF ~Truthy(ai)
    THEN Return([t |-> "object",
                 subject |-> DemoText("Action Required: Payment Issue - Invoice", transaction),
                 body |-> DemoText("Dear Team, ... Accounts Payable (Demo)", transaction)])
    ELSE TryCatch(
           LET response == generateContent(out)
           IN  IF response.threw THEN response
               ELSE JSONParse(Or(response.value.text, JsonText(EmptyObject))),
           Return(EmptyObject))

draftVendorEmail(ai, transaction, out) ==
    IF ~Truthy(ai)
    THEN Return([t |-> "object",
                 subject |-> DemoText("Action Required: Payment Issue - Invoice", transaction),
                 body |-> DemoText("Dear Team, ... Accounts Payable (Demo)", transaction)])
    ELSE TryCatch(
           LET response == generateContent(out)
           IN  IF response.threw THEN response
               ELSE JSONParse(Or(response.value.text, JsonText(EmptyObject))),
           Return([t |-> "object", subject |-> Str("Error"),
                   body |-> Str("Could not draft email.")]))

validateRectification(ai, transaction, adjustmentDetails, out) ==
    IF ~Truthy(ai)
    THEN Return(Text(<<"APPROVED", ": (Demo) The proposed adjustment aligns with standard operating procedures for this error type.">>))
    ELSE TryCatch(
           LET response == generateContent(out)
           IN  IF response.threw THEN response
               ELSE Return(Or(response.value.text, Str("Validation failed."))),
           Return(Str("Error validating rectification.")))

askTransactionQuestion(ai, transaction, question, out) ==
    IF ~Truthy(ai)
    THEN Return(Str("I am currently running in **Demo Mode** because no API Key was provided."))
    ELSE TryCatch(
           LET response == generateContent(out)
           IN  IF response.threw THEN response
               ELSE Return(Or(response.value.text, Str("I couldn't process that question."))),
           Return(Str("I'm having trouble connecting to the service right now.")))

predictResolutionLikelihood(ai, transaction, out) ==
    IF ~Truthy(ai)
    THEN Return([t |-> "object", score |-> Num(85), label |-> Str("High"),
                 rationale |-> Str("(Demo) High confidence based on historical resolution of similar routing errors.")])
    ELSE TryCatch(
           LET response == generateContent(out)
           IN  IF response.threw THEN response
               ELSE JSONParse(Or(response.value.text, JsonText(EmptyObject))),
           Return([t |-> "object", score |-> Num(50), label |-> Str("Medium"),
                   rationale |-> Str("Estimation unavailable")]))

\* the demo plan with its last two steps exchanged
DemoPlanReordered ==
    Plan(<<Step("ANALYZE"), Step("RECTIFY"), Step("EMAIL_VENDOR")>>,
         "(Demo) The system has identified a high-probability resolution path involving vendor outreach and data verification.")

DemoPlan ==
    Plan(<<Step("ANALYZE"), Step("EMAIL_VENDOR"), Step("RECTIFY")>>,
         "(Demo) The system has identified a high-probability resolution path involving vendor outreach and data verification.")

generateAutoPilotPlan(ai, transaction, out) ==
    IF ~Truthy(ai)
    THEN Return(DemoPlan)
    ELSE TryCatch(
           LET response == generateContent(out)
           IN  IF response.threw THEN response
               ELSE JSONParse(Or(response.value.text, JsonText(EmptyObject))),
           Return(Plan(<<>>, "Failed to generate plan")))

Operations == {"analyzeFailure", "draftVendorEmail", "validateRectification",
               "askTransactionQuestion", "predictResolutionLikelihood",
               "generateAutoPilotPlan"}

\* dispatch by operation name; arg is the auxiliary free text, if any
Operation(op, ai, transaction, arg, out) ==
    CASE op = "analyzeFailure" -> analyzeFailure(ai, transaction, out)
      [] op = "draftVendorEmail" -> draftVendorEmail(ai, transaction, out)
      [] op = "validateRectification" -> validateRectification(ai, transaction, arg, out)
      [] op = "askTransactionQuestion" -> askTransactionQuestion(ai, transaction, arg, out)
      [] op = "predictResolutionLikelihood" -> predictResolutionLikelihood(ai, transaction, out)
      [] op = "generateAutoPilotPlan" -> generateAutoPilotPlan(ai, transaction, out)

---------------------------------------------------------------------------
(* Initial state *)

NoCall == [op |-> "none"]

\* module initialisation of geminiService.ts: userApiKey is read from storage
ClientInit ==
    /\ localStorage \in {Null, Str("AIza-user")}
    /\ userApiKey = localStorage
    /\ envApiKey \in EnvKeys

\* the first session: nothing came before it
FirstSession == [previous |-> Undefined, restored |-> Undefined]

HarnessInit ==
    /\ clientCall = NoCall
    /\ clientResult = NoCall
    /\ session = FirstSession

Transaction(id) == CHOOSE tx \in {INITIAL_TRANSACTIONS[i] : i \in DOMAIN INITIAL_TRANSACTIONS} :
                      tx.id = id

\* a call of predictResolutionLikelihood whose model call is in flight
PendingCall(ai, id) == [ai |-> ai, transaction |-> id]

\* the mount effect of AgentPanel for the first transaction: the prediction
\* shown and the predictions in flight (a demo-mode one settles at once)
MountEffect(ai) ==
    IF INITIAL_TRANSACTIONS[1].status # "FAILED"
    THEN [prediction |-> Null, predictions |-> <<>>]
    ELSE IF ~Truthy(ai)
    THEN [prediction |-> predictResolutionLikelihood(Null, INITIAL_TRANSACTIONS[1].id,
                                                     [fail |-> TRUE]).value,
          predictions |-> <<>>]
    ELSE [prediction |-> Null,
          predictions |-> <<PendingCall(ai, INITIAL_TRANSACTIONS[1].id)>>]

\* App and AgentPanel after the first render and its mount effect
AppInit ==
    /\ transactions = [id \in TxnIds |-> Transaction(id).status]
    /\ selectedId = INITIAL_TRANSACTIONS[1].id
    /\ auditLogs = INITIAL_AUDIT_LOGS
    /\ loading = FALSE
    /\ analysis = Null
    /\ emailDraft = Null
    /\ rectificationNote = Str("")
    /\ autoPilotActive = FALSE
    /\ autoPilotPlan = Null
    /\ currentStepIndex = -1
    /\ effectDeps = <<INITIAL_TRANSACTIONS[1].id, INITIAL_TRANSACTIONS[1].status>>
    /\ prediction = MountEffect(getClient).prediction
    /\ predictions = MountEffect(getClient).predictions
    /\ calls = <<>>
    /\ runs = <<>>

\* the client as the app is deployed: no key in the environment, the mode
\* is decided by the key the user has stored
DeployedInit ==
    /\ ClientInit
    /\ envApiKey = Undefined

Init == DeployedInit /\ HarnessInit /\ AppInit

---------------------------------------------------------------------------
(* The Agent Client called directly *)

Questions == {"Corrected routing number to 021000021"}

ClientSetApiKey(key) ==
    /\ setApiKey(key)
    /\ UNCHANGED <<harnessVars, appVars, panelVars, calls, runs>>

\* the caller invokes an operation: getClient() runs before the first await
CallOperation(op, id, arg) ==
    /\ clientCall = NoCall
    /\ clientCall' = [op |-> op, ai |-> getClient, transaction |-> id, arg |-> arg]
    /\ clientResult' = NoCall
    /\ UNCHANGED <<clientVars, session, appVars, panelVars, calls, runs>>

\* the model call of the operation in flight completes with out
SettleOperation(out) ==
    /\ clientCall # NoCall
    /\ LET r == Operation(clientCall.op, clientCall.ai, clientCall.transaction,
                          clientCall.arg, out)
       IN  clientResult' = [op |-> clientCall.op, ai |-> clientCall.ai,
                            transaction |-> clientCall.transaction, out |-> out,
                            settled |-> Settle(r).settled, value |-> Settle(r).value]
    /\ clientCall' = NoCall
    /\ UNCHANGED <<clientVars, session, appVars, panelVars, calls, runs>>

\* the page is loaded again: the module is initialised from localStorage,
\* calls in flight are gone, App and AgentPanel mount afresh
NewSession ==
    /\ userApiKey' = localStorage
    /\ UNCHANGED <<localStorage, envApiKey>>
    /\ clientCall' = NoCall
    /\ clientResult' = NoCall
    /\ session' = [previous |-> userApiKey, restored |-> userApiKey']
    /\ transactions' = [id \in TxnIds |-> Transaction(id).status]
    /\ selectedId' = INITIAL_TRANSACTIONS[1].id
    /\ auditLogs' = INITIAL_AUDIT_LOGS
    /\ loading' = FALSE
    /\ analysis' = Null
    /\ emailDraft' = Null
    /\ rectificationNote' = Str("")
    /\ autoPilotActive' = FALSE
    /\ autoPilotPlan' = Null
    /\ currentStepIndex' = -1
    /\ effectDeps' = <<INITIAL_TRANSACTIONS[1].id, INITIAL_TRANSACTIONS[1].status>>
    /\ prediction' = MountEffect(getClient').prediction
    /\ predictions' = MountEffect(getClient').predictions
    /\ calls' = <<>>
    /\ runs' = <<>>

ClientNext ==
    \/ \E key \in UserKeys : ClientSetApiKey(key)
    \/ NewSession
    \/ \E op \in Operations, id \in TxnIds, arg \in Questions : CallOperation(op, id, arg)
    \/ \E out \in ModelOutcomes : SettleOperation(out)

\* the client with any stored key and any environment key
InitClient == ClientInit /\ HarnessInit /\ AppInit

SpecClient == InitClient /\ [][ClientNext]_vars

---------------------------------------------------------------------------
(* App and AgentPanel (App.tsx, components/AgentPanel.tsx).  One action is *)
(* one task of the event loop: the code that runs from an event, a timer   *)
(* or a settled model call up to the next await on a timer or model call,  *)
(* followed by the render React 19 batches for it and by the effects of    *)
(* that render.                                                            *)

\* the useState values of AgentPanel that the handlers write
Panel == [loading |-> loading, analysis |-> analysis, emailDraft |-> emailDraft,
          rectificationNote |-> rectificationNote, prediction |-> prediction, autoPilotActive |-> autoPilotActive,
          autoPilotPlan |-> autoPilotPlan, currentStepIndex |-> currentStepIndex]

\* what the model call of an operation of the panel can come back with: a
\* failure, an empty text, or a text of the kind the prompt asks for (for a
\* structured operation also the JSON text null)
OutcomesFor(op) ==
    Outcomes({Str("")}
             \cup CASE op = "generateAutoPilotPlan" -> JsonTexts(ModelPlans \cup {Null})
                    [] op = "draftVendorEmail" ->
                         JsonTexts({[t |-> "object", subject |-> Str("Payment issue"),
                                     body |-> Str("Dear vendor")],
                                    Null})
                    [] op = "predictResolutionLikelihood" ->
                         JsonTexts({[t |-> "object", score |-> Num(72), label |-> Str("High"),
                                     rationale |-> Str("Routing errors resolve quickly")]})
                    [] op = "validateRectification" -> ValidationTexts
                    [] OTHER ->
                         {Str("The routing number on file does not match the bank record.")})

\* the outcomes of the two operations a step of a run can await
StepOutcomes == OutcomesFor("analyzeFailure") \cup OutcomesFor("draftVendorEmail")

\* useEffect(..., [transaction.id, transaction.status]): the state the reset
\* leaves; a demo-mode prediction settles in the same task
ResetEffect(p, id, status, ai) ==
    [p EXCEPT !.analysis = Null,
              !.emailDraft = Null,
              !.rectificationNote = Str(""),
              !.prediction = IF status = "FAILED" /\ ~Truthy(ai)
                             THEN predictResolutionLikelihood(ai, id, [fail |-> TRUE]).value
                             ELSE Null,
              !.autoPilotActive = FALSE,
              !.autoPilotPlan = Null,
              !.currentStepIndex = -1]

\* render with the selection sel, the statuses txs and the panel state p the
\* task left, then the reset effect if its dependencies changed
Render(sel, txs, p, pending) ==
    LET deps == <<sel, txs[sel]>>
        fire == deps # effectDeps
        ai == getClient
        q == IF fire THEN ResetEffect(p, sel, txs[sel], ai) ELSE p
    IN  /\ selectedId' = sel
        /\ transactions' = txs
        /\ effectDeps' = deps
        /\ loading' = q.loading
        /\ analysis' = q.analysis
        /\ emailDraft' = q.emailDraft
        /\ rectificationNote' = q.rectificationNote
        /\ prediction' = q.prediction
        /\ autoPilotActive' = q.autoPilotActive
        /\ autoPilotPlan' = q.autoPilotPlan
        /\ currentStepIndex' = q.currentStepIndex
        /\ predictions' = IF fire /\ txs[sel] = "FAILED" /\ Truthy(ai)
                          THEN Append(pending, PendingCall(ai, sel))
                          ELSE pending

\* TransactionList onSelect={setSelectedId}
SelectTransaction(id) ==
    /\ id # selectedId
    /\ (transactions[id] = "FAILED" /\ Truthy(getClient)) => Len(predictions) < MaxPending
    /\ Render(id, transactions, Panel, predictions)
    /\ UNCHANGED <<clientVars, harnessVars, auditLogs, calls, runs>>

RemoveAt(seq, k) == SubSeq(seq, 1, k - 1) \o SubSeq(seq, k + 1, Len(seq))

\* predictResolutionLikelihood(transaction).then(setPrediction)
PredictionResolves(k, out) ==
    /\ k \in DOMAIN predictions
    /\ LET r == predictResolutionLikelihood(predictions[k].ai, predictions[k].transaction, out)
       IN  Render(selectedId, transactions,
                  IF r.threw THEN Panel ELSE [Panel EXCEPT !.prediction = r.value],
                  RemoveAt(predictions, k))
    /\ UNCHANGED <<clientVars, harnessVars, auditLogs, calls, runs>>

---------------------------------------------------------------------------
(* Plan Runner: handleAutoResolve.  A run is one invocation; it keeps the  *)
(* transaction of the render it was started from.  pc is the await the run *)
(* is suspended at: "plan" (generateAutoPilotPlan), "timer" (the 2 s       *)
(* delay of step i), "call" (the agent operation of step i); "done" after  *)
(* the last statement, "fault" when the invocation died of an exception.   *)
(* logged is the history of the run: the positions in auditLogs of the     *)
(* entries it appended; invoked is the agent operations it called, result  *)
(* what the last of them resolved to.                                      *)

\* the entry named by the invoice rather than by the transaction
LogEntryByInvoice(id, agent, action) ==
    [transactionId |-> Transaction(id).invoiceId, agent |-> agent, action |-> action]

LogEntry(id, agent, action) == [transactionId |-> id, agent |-> agent, action |-> action]

\* the new entry put first
handleAddLogFirst(logs, newLog) == <<newLog>> \o logs

\* handleAddLog: setAuditLogs(prev => [...prev, newLog])
handleAddLog(logs, newLog) == Append(logs, newLog)

\* the update reading the selection at the time it is applied
handleUpdateStatusOfSelected(txs, id, newStatus) == [txs EXCEPT ![selectedId] = newStatus]

\* handleUpdateStatus of the render the handler was created in: its selectedId
handleUpdateStatus(txs, id, newStatus) == [txs EXCEPT ![id] = newStatus]

\* plan.steps.length
StepsLength(plan) ==
    LET steps == ReadProp(plan, "steps")
    IN  IF steps.threw THEN steps
        ELSE IF steps.value.t \in {"undefined", "null"} THEN Throw("TypeError")
        ELSE Return(Num(Len(steps.value.items)))

NumSteps(plan) == StepsLength(plan).value.n

\* the loop clearing the auto-pilot flag when it ends
LoopFromClearing(run, i, p) ==
    IF i < NumSteps(run.plan)
    THEN [run |-> [run EXCEPT !.i = i, !.pc = "timer"],
          panel |-> [p EXCEPT !.currentStepIndex = i]]
    ELSE [run |-> [run EXCEPT !.i = i, !.pc = "done"],
          panel |-> [p EXCEPT !.loading = FALSE, !.autoPilotActive = FALSE,
                              !.currentStepIndex = NumSteps(run.plan)]]

\* the loop entering the step after i without having run step i
LoopFromSkipping(run, i, p) ==
    IF i + 1 < NumSteps(run.plan)
    THEN [run |-> [run EXCEPT !.i = i + 1, !.pc = "timer"],
          panel |-> [p EXCEPT !.currentStepIndex = i + 1]]
    ELSE [run |-> [run EXCEPT !.i = NumSteps(run.plan), !.pc = "done"],
          panel |-> [p EXCEPT !.loading = FALSE,
                              !.currentStepIndex = NumSteps(run.plan)]]

\* the loop test i < plan.steps.length and what follows it up to the next await
LoopFrom(run, i, p) ==
    IF i < NumSteps(run.plan)
    THEN [run |-> [run EXCEPT !.i = i, !.pc = "timer"],
          panel |-> [p EXCEPT !.currentStepIndex = i]]
    ELSE [run |-> [run EXCEPT !.i = i, !.pc = "done"],
          panel |-> [p EXCEPT !.loading = FALSE,
                              !.currentStepIndex = NumSteps(run.plan)]]

\* the first step calling its operation without the delay before it
AfterPlanWithoutDelay(run, plan, p) ==
    LET p1 == [p EXCEPT !.autoPilotPlan = plan]
        run1 == [run EXCEPT !.plan = plan, !.ai = Null]
        res == LoopFrom(run1, 0, p1)
    IN  IF StepsLength(plan).threw
        THEN [run |-> [run1 EXCEPT !.pc = "fault"], panel |-> p1]
        ELSE IF res.run.pc = "timer"
                /\ Prop(plan.steps.items[1], "action") \in {Str("ANALYZE"), Str("EMAIL_VENDOR")}
        THEN [res EXCEPT !.run.pc = "call"]
        ELSE res

\* from the resolution of generateAutoPilotPlan to the first await of the loop
AfterPlan(run, plan, p) ==
    LET p1 == [p EXCEPT !.autoPilotPlan = plan]
        run1 == [run EXCEPT !.plan = plan, !.ai = Null]
    IN  IF StepsLength(plan).threw
        THEN [run |-> [run1 EXCEPT !.pc = "fault"], panel |-> p1]
        ELSE LoopFrom(run1, 0, p1)

\* the button rendered for every status
AutoResolveUngated ==
    /\ Truthy(prediction)
    /\ ~autoPilotActive

\* the Auto-Resolve button is rendered
AutoResolveEnabled ==
    /\ transactions[selectedId] = "FAILED"
    /\ Truthy(prediction)
    /\ ~autoPilotActive

\* click on Auto-Resolve: in demo mode the plan is there without a delay
HandleAutoResolve ==
    /\ AutoResolveEnabled
    /\ Len(runs) < MaxRuns
    /\ LET ai == getClient
           p0 == [Panel EXCEPT !.autoPilotActive = TRUE, !.loading = TRUE]
           run0 == [transaction |-> selectedId, pc |-> "plan", plan |-> Null,
                    i |-> 0, ai |-> ai, logged |-> <<>>, invoked |-> <<>>,
                    result |-> Undefined]
           res == IF Truthy(ai) THEN [run |-> run0, panel |-> p0]
                  ELSE AfterPlan(run0,
                                 generateAutoPilotPlan(ai, selectedId, [fail |-> TRUE]).value,
                                 p0)
       IN  /\ runs' = Append(runs, res.run)
           /\ Render(selectedId, transactions, res.panel, predictions)
    /\ UNCHANGED <<clientVars, harnessVars, auditLogs, calls>>

\* the model call of generateAutoPilotPlan completes
PlanResolves(r, out) ==
    /\ r \in DOMAIN runs
    /\ runs[r].pc = "plan"
    /\ LET plan == generateAutoPilotPlan(runs[r].ai, runs[r].transaction, out)
           res == IF plan.threw
                  THEN [run |-> [runs[r] EXCEPT !.pc = "fault"], panel |-> Panel]
                  ELSE AfterPlan(runs[r], plan.value, Panel)
       IN  /\ runs' = [runs EXCEPT ![r] = res.run]
           /\ Render(selectedId, transactions, res.panel, predictions)
    /\ UNCHANGED <<clientVars, harnessVars, auditLogs, calls>>

CurrentStep(run) == run.plan.steps.items[run.i + 1]

StepLabel(action) ==
    CASE action = Str("ANALYZE") -> "Auto-Pilot: Analysis"
      [] action = Str("EMAIL_VENDOR") -> "Auto-Pilot: Contact"
      [] action = Str("RECTIFY") -> "Auto-Pilot: Status Update"

\* the agent operation the step awaits
StepOperation(run) ==
    IF Prop(CurrentStep(run), "action") = Str("ANALYZE") THEN "analyzeFailure"
    ELSE "draftVendorEmail"

\* the 2 s timer of step i fires: dispatch on step.action
TimerFires(r) ==
    /\ r \in DOMAIN runs
    /\ runs[r].pc = "timer"
    /\ LET run == runs[r]
           action == Prop(CurrentStep(run), "action")
       IN  IF action \in {Str("ANALYZE"), Str("EMAIL_VENDOR")}
           THEN /\ runs' = [runs EXCEPT ![r] = [run EXCEPT !.pc = "call", !.ai = getClient,
                                                          !.invoked = Append(@, StepOperation(run))]]
                /\ UNCHANGED <<appVars, panelVars>>
           ELSE IF action = Str("RECTIFY")
           THEN LET logs == handleAddLog(auditLogs,
                               LogEntry(run.transaction, AgentRole.SYSTEM, StepLabel(action)))
                    res == LoopFrom([run EXCEPT !.logged = Append(@, Len(logs))],
                                    run.i + 1, Panel)
                IN  /\ auditLogs' = logs
                    /\ runs' = [runs EXCEPT ![r] = res.run]
                    /\ Render(selectedId,
                              handleUpdateStatus(transactions, run.transaction, "RECTIFYING"),
                              res.panel, predictions)
           ELSE LET res == LoopFrom(run, run.i + 1, Panel)
                IN  /\ auditLogs' = auditLogs
                    /\ runs' = [runs EXCEPT ![r] = res.run]
                    /\ Render(selectedId, transactions, res.panel, predictions)
    /\ UNCHANGED <<clientVars, harnessVars, calls>>

\* analyzeFailure / draftVendorEmail of step i settles
CallResolves(r, out) ==
    /\ r \in DOMAIN runs
    /\ runs[r].pc = "call"
    /\ out \in OutcomesFor(StepOperation(runs[r]))
    /\ LET run == runs[r]
           action == Prop(CurrentStep(run), "action")
           result == IF action = Str("ANALYZE")
                     THEN analyzeFailure(run.ai, run.transaction, out)
                     ELSE draftVendorEmail(run.ai, run.transaction, out)
           \* `Subject: ${draft.subject}\nBody: ${draft.body}`
           content == IF action = Str("ANALYZE") \/ result.threw THEN result
                      ELSE ReadProp(result.value, "subject")
       IN  IF content.threw
           THEN /\ runs' = [runs EXCEPT ![r] = [run EXCEPT !.pc = "fault", !.ai = Null,
                                                          !.result = result.value]]
                /\ UNCHANGED <<appVars, panelVars>>
           ELSE LET logs == handleAddLog(auditLogs,
                               LogEntry(run.transaction, AgentRole.SYSTEM, StepLabel(action)))
                    p1 == IF action = Str("ANALYZE")
                          THEN [Panel EXCEPT !.analysis = result.value]
                          ELSE [Panel EXCEPT !.emailDraft = result.value]
                    res == LoopFrom([run EXCEPT !.logged = Append(@, Len(logs)), !.ai = Null,
                                                !.result = result.value],
                                    run.i + 1, p1)
                IN  /\ auditLogs' = logs
                    /\ runs' = [runs EXCEPT ![r] = res.run]
                    /\ Render(selectedId, transactions, res.panel, predictions)
    /\ UNCHANGED <<clientVars, harnessVars, calls>>

---------------------------------------------------------------------------
(* Manual actions of the panel.  A call is one invocation of handleAnalyze, *)
(* handleDraftEmail or handleRectify: it keeps the transaction, the         *)
(* onUpdateStatus and the note of the render it was started from.  pc is    *)
(* "call" while its agent operation is awaited, then "done", or "fault"     *)
(* when the invocation died of an exception; result is what the operation   *)
(* resolved to.                                                             *)

\* what the user types into the controller note
Notes == {Str(""), Str("Corrected routing number to 021000021")}

\* the two manual buttons of a FAILED transaction are rendered
ManualEnabled ==
    /\ transactions[selectedId] = "FAILED"
    /\ ~autoPilotActive

\* the controller note and its submit button are rendered
RectifyEnabled ==
    /\ transactions[selectedId] = "RECTIFYING"
    /\ ~autoPilotActive

StartCall(handler, note) ==
    [handler |-> handler, transaction |-> selectedId, ai |-> getClient,
     note |-> note, pc |-> "call", result |-> Undefined]

\* click on Auditor Analysis
AnalyzeClicked ==
    /\ ManualEnabled
    /\ calls' = Append(calls, StartCall("handleAnalyze", Str("")))
    /\ Render(selectedId, transactions,
              [Panel EXCEPT !.loading = TRUE, !.analysis = Null, !.emailDraft = Null],
              predictions)
    /\ UNCHANGED <<clientVars, harnessVars, auditLogs, runs>>

HandleAnalyze == Len(calls) < MaxCalls /\ AnalyzeClicked

\* analyzeFailure of handleAnalyze settles
AnalyzeResolves(c, out) ==
    /\ c \in DOMAIN calls
    /\ calls[c].handler = "handleAnalyze"
    /\ calls[c].pc = "call"
    /\ LET call == calls[c]
           result == analyzeFailure(call.ai, call.transaction, out).value
       IN  /\ calls' = [calls EXCEPT ![c] = [call EXCEPT !.pc = "done", !.ai = Null, !.result = result]]
           /\ auditLogs' = handleAddLog(auditLogs,
                               LogEntry(call.transaction, AgentRole.AUDITOR, "Analyzed Failure"))
           /\ Render(selectedId, transactions,
                     [Panel EXCEPT !.analysis = result, !.loading = FALSE], predictions)
    /\ UNCHANGED <<clientVars, harnessVars, runs>>

\* click on Contact Vendor
DraftEmailClicked ==
    /\ ManualEnabled
    /\ calls' = Append(calls, StartCall("handleDraftEmail", Str("")))
    /\ Render(selectedId, transactions,
              [Panel EXCEPT !.loading = TRUE, !.analysis = Null, !.emailDraft = Null],
              predictions)
    /\ UNCHANGED <<clientVars, harnessVars, auditLogs, runs>>

HandleDraftEmail == Len(calls) < MaxCalls /\ DraftEmailClicked

\* draftVendorEmail of handleDraftEmail settles; the log entry reads
\* draft.subject after the status update was issued
DraftResolves(c, out) ==
    /\ c \in DOMAIN calls
    /\ calls[c].handler = "handleDraftEmail"
    /\ calls[c].pc = "call"
    /\ LET call == calls[c]
           draft == draftVendorEmail(call.ai, call.transaction, out).value
           content == ReadProp(draft, "subject")
       IN  /\ calls' = [calls EXCEPT ![c] = [call EXCEPT
                            !.pc = IF content.threw THEN "fault" ELSE "done",
                            !.ai = Null, !.result = draft]]
           /\ auditLogs' = IF content.threw THEN auditLogs
                           ELSE handleAddLog(auditLogs,
                                    LogEntry(call.transaction, AgentRole.LIAISON,
                                             "Drafted Communication"))
           /\ Render(selectedId,
                     handleUpdateStatus(transactions, call.transaction, "RECTIFYING"),
                     [Panel EXCEPT !.emailDraft = draft, !.loading = FALSE], predictions)
    /\ UNCHANGED <<clientVars, harnessVars, runs>>

\* click on Send Now
HandleSendEmail ==
    /\ ~loading
    /\ Truthy(emailDraft)
    /\ ~autoPilotActive
    /\ auditLogs' = handleAddLog(auditLogs,
                        LogEntry(selectedId, AgentRole.LIAISON, "Sent Email"))
    /\ Render(selectedId, transactions, [Panel EXCEPT !.emailDraft = Null], predictions)
    /\ UNCHANGED <<clientVars, harnessVars, calls, runs>>

\* the user edits the controller note
SetRectificationNote(text) ==
    /\ RectifyEnabled
    /\ text # rectificationNote
    /\ Render(selectedId, transactions, [Panel EXCEPT !.rectificationNote = text],
              predictions)
    /\ UNCHANGED <<clientVars, harnessVars, auditLogs, calls, runs>>

\* click on Submit for Approval
RectifyClicked ==
    /\ RectifyEnabled
    /\ Truthy(Trim(rectificationNote))
    /\ Truthy(rectificationNote)
    /\ calls' = Append(calls, StartCall("handleRectify", rectificationNote))
    /\ Render(selectedId, transactions, [Panel EXCEPT !.loading = TRUE], predictions)
    /\ UNCHANGED <<clientVars, harnessVars, auditLogs, runs>>

HandleRectify == Len(calls) < MaxCalls /\ RectifyClicked

\* validateRectification of handleRectify settles
RectifyResolves(c, out) ==
    /\ c \in DOMAIN calls
    /\ calls[c].handler = "handleRectify"
    /\ calls[c].pc = "call"
    /\ LET call == calls[c]
           validation == validateRectification(call.ai, call.transaction, call.note, out).value
           approved == Includes(validation, "APPROVED")
       IN  /\ calls' = [calls EXCEPT ![c] = [call EXCEPT !.pc = "done", !.ai = Null, !.result = validation]]
           /\ auditLogs' = handleAddLog(auditLogs,
                               LogEntry(call.transaction, AgentRole.CONTROLLER,
                                        IF approved THEN "Rectification Approved"
                                        ELSE "Rectification Rejected"))
           /\ Render(selectedId,
                     IF approved
                     THEN handleUpdateStatus(transactions, call.transaction, "RECTIFIED")
                     ELSE transactions,
                     IF approved
                     THEN [Panel EXCEPT !.loading = FALSE, !.rectificationNote = Str("")]
                     ELSE [Panel EXCEPT !.loading = FALSE],
                     predictions)
    /\ UNCHANGED <<clientVars, harnessVars, runs>>

---------------------------------------------------------------------------

Next ==
    \/ \E id \in TxnIds : SelectTransaction(id)
    \/ \E k \in 1..MaxPending, out \in OutcomesFor("predictResolutionLikelihood") :
          PredictionResolves(k, out)
    \/ HandleAutoResolve
    \/ \E r \in 1..MaxRuns, out \in OutcomesFor("generateAutoPilotPlan") :
          PlanResolves(r, out)
    \/ \E r \in 1..MaxRuns : TimerFires(r)
    \/ \E r \in 1..MaxRuns, out \in StepOutcomes :
          CallResolves(r, out)
    \/ HandleAnalyze
    \/ \E c \in 1..MaxCalls, out \in OutcomesFor("analyzeFailure") :
          AnalyzeResolves(c, out)
    \/ HandleDraftEmail
    \/ \E c \in 1..MaxCalls, out \in OutcomesFor("draftVendorEmail") :
          DraftResolves(c, out)
    \/ HandleSendEmail
    \/ \E text \in Notes : SetRectificationNote(text)
    \/ HandleRectify
    \/ \E c \in 1..MaxCalls, out \in OutcomesFor("validateRectification") :
          RectifyResolves(c, out)

Spec == Init /\ [][Next]_vars

\* The app in demo mode (no key stored, none in the environment), with room
\* for one more manual call: no model call is made, so no prediction and no
\* plan is ever awaited.  The user moves between the first two rows of the
\* list, a FAILED and a CLEARED transaction.
InitDemo == Init /\ ~Truthy(getClient)

DemoTxnIds == {INITIAL_TRANSACTIONS[1].id, INITIAL_TRANSACTIONS[2].id}

DemoHandleAnalyze == Len(calls) < MaxDemoCalls /\ AnalyzeClicked

DemoHandleDraftEmail == Len(calls) < MaxDemoCalls /\ DraftEmailClicked

DemoHandleRectify == Len(calls) < MaxDemoCalls /\ RectifyClicked

NextDemo ==
    \/ \E id \in DemoTxnIds : SelectTransaction(id)
    \/ HandleAutoResolve
    \/ \E r \in 1..MaxRuns : TimerFires(r)
    \/ \E r \in 1..MaxRuns, out \in StepOutcomes :
          CallResolves(r, out)
    \/ DemoHandleAnalyze
    \/ \E c \in 1..MaxDemoCalls, out \in OutcomesFor("analyzeFailure") :
          AnalyzeResolves(c, out)
    \/ DemoHandleDraftEmail
    \/ \E c \in 1..MaxDemoCalls, out \in OutcomesFor("draftVendorEmail") :
          DraftResolves(c, out)
    \/ HandleSendEmail
    \/ \E text \in Notes : SetRectificationNote(text)
    \/ DemoHandleRectify
    \/ \E c \in 1..MaxDemoCalls, out \in OutcomesFor("validateRectification") :
          RectifyResolves(c, out)

SpecDemo == InitDemo /\ [][NextDemo]_vars

---------------------------------------------------------------------------
(* Plan Runner properties, checked under Spec *)

Ended(run) == run.pc \in {"done", "fault"}

\* the plan is a Plan of types.ts: a list of steps with known action tags
IsTypedPlan(plan) ==
    /\ ~StepsLength(plan).threw
    /\ \A k \in 1..NumSteps(plan) :
          Prop(plan.steps.items[k], "action") \in {Str(a) : a \in PlanActions}

\* run r executes its last statement in this step
Completes(r) ==
    /\ r \in DOMAIN runs'
    /\ runs'[r].pc = "done"
    /\ (r \in DOMAIN runs => runs[r].pc # "done")

\* C1: a run whose plan has N steps appends exactly N SYSTEM entries, one per
\* step, in step order 0..N-1.
C1_OneSystemEntryPerStep ==
    \A r \in DOMAIN runs :
        (Ended(runs[r]) /\ IsTypedPlan(runs[r].plan))
            => /\ Len(runs[r].logged) = NumSteps(runs[r].plan)
               /\ \A k \in 1..Len(runs[r].logged) :
                     /\ auditLogs[runs[r].logged[k]] =
                           LogEntry(runs[r].transaction, AgentRole.SYSTEM,
                                    StepLabel(runs[r].plan.steps.items[k].action))
                     /\ k > 1 => runs[r].logged[k - 1] < runs[r].logged[k]

\* C2: when a run has executed its last step, the panel shows Done: the step
\* index equals the number of steps, the reset effect of the run included.
C2_FinalStateIsDone ==
    [][\A r \in 1..MaxRuns :
          Completes(r) => currentStepIndex' = NumSteps(runs'[r].plan)]_vars

\* C3: a run whose plan has 0 steps completes with no entry appended and no
\* processing state left: loading is false and the auto-pilot is not shown
\* as executing.
C3_EmptyPlanLeavesNoProcessingState ==
    [][\A r \in 1..MaxRuns :
          (Completes(r) /\ NumSteps(runs'[r].plan) = 0)
              => /\ auditLogs' = auditLogs
                 /\ ~loading'
                 /\ ~autoPilotActive']_vars

\* C4: a started run never stops part-way because of a fault, whatever the
\* plan call and the step calls resolve to.
C4_NoRunFaults ==
    \A r \in DOMAIN runs : runs[r].pc # "fault"

---------------------------------------------------------------------------
(* Agent Client properties, checked under SpecClient *)

Live(call) == call # NoCall /\ Truthy(call.ai)

StructuredOperations == {"draftVendorEmail", "predictResolutionLikelihood",
                         "generateAutoPilotPlan"}
FreeTextOperations == {"analyzeFailure", "validateRectification",
                       "askTransactionQuestion"}

IsString(v) == v.t = "string"

\* C5: every Agent Client operation resolves to a value, whatever the model
\* call does (failure, empty text, unparsable text, any text); none rejects.
C5_EveryOperationResolves ==
    clientResult # NoCall => clientResult.settled = "resolved"

C5_Witness ==
    /\ Live(clientResult)
    /\ clientResult.op = "generateAutoPilotPlan"
    /\ ~clientResult.out.fail
    /\ clientResult.out.text \in ProseTexts
    /\ clientResult.settled = "resolved"

\* C6: draftVendorEmail always returns an object whose subject and body are
\* both present and both strings.
C6_DraftIsWellFormed ==
    (clientResult # NoCall /\ clientResult.op = "draftVendorEmail")
        => /\ clientResult.value.t = "object"
           /\ IsString(Prop(clientResult.value, "subject"))
           /\ IsString(Prop(clientResult.value, "body"))

\* C7: the result of predictResolutionLikelihood has a score within 0..100
\* and a label among High, Medium, Low; a call failure gives 50 / Medium.
C7_PredictionInRange ==
    (clientResult # NoCall /\ clientResult.op = "predictResolutionLikelihood")
        => LET v == clientResult.value
           IN  /\ v.t = "object"
               /\ Prop(v, "score").t = "number"
               /\ Prop(v, "score").n \in 0..100
               /\ Prop(v, "label") \in {Str("High"), Str("Medium"), Str("Low")}
               /\ (Live(clientResult) /\ clientResult.out.fail)
                     => /\ v.score = Num(50)
                        /\ v.label = Str("Medium")

DocumentedDefault(op) ==
    CASE op = "draftVendorEmail" ->
           [t |-> "object", subject |-> Str("Error"), body |-> Str("Could not draft email.")]
      [] op = "predictResolutionLikelihood" ->
           [t |-> "object", score |-> Num(50), label |-> Str("Medium"),
            rationale |-> Str("Estimation unavailable")]
      [] op = "generateAutoPilotPlan" ->
           [t |-> "object", steps |-> Arr(<<>>), reasoning |-> Str("Failed to generate plan")]

\* the text the operation hands to JSON.parse is not a JSON document
ParseFails(result) ==
    /\ ~result.out.fail
    /\ Truthy(result.out.text)
    /\ "json" \notin DOMAIN result.out.text

\* C8: in live mode, a structured-response operation whose model response
\* cannot be parsed returns its documented default.
C8_ParseFailureGivesDefault ==
    (Live(clientResult) /\ clientResult.op \in StructuredOperations
       /\ ParseFails(clientResult))
        => clientResult.value = DocumentedDefault(clientResult.op)

C8_Witness ==
    /\ Live(clientResult)
    /\ clientResult.op = "draftVendorEmail"
    /\ ParseFails(clientResult)
    /\ clientResult.value.subject = Str("Error")

EmptyFallback(op) ==
    CASE op = "analyzeFailure" -> Str("Unable to generate analysis.")
      [] op = "validateRectification" -> Str("Validation failed.")
      [] op = "askTransactionQuestion" -> Str("I couldn't process that question.")

IsEmptyText(text) == text = Undefined \/ text = Str("")

\* C9: in live mode a free-text operation returns a non-empty model response
\* verbatim, and its own fallback when the response is empty.
C9_FreeTextVerbatimOrFallback ==
    (Live(clientResult) /\ clientResult.op \in FreeTextOperations
       /\ ~clientResult.out.fail)
        => IF IsEmptyText(clientResult.out.text)
           THEN clientResult.value = EmptyFallback(clientResult.op)
           ELSE clientResult.value = clientResult.out.text

C9_Witness ==
    /\ Live(clientResult)
    /\ clientResult.op = "validateRectification"
    /\ ~clientResult.out.fail
    /\ clientResult.out.text = Str("")
    /\ clientResult.value = Str("Validation failed.")

DemoResult(op, id) ==
    CASE op = "analyzeFailure" -> DemoText("## DEMO MODE ANALYSIS", id)
      [] op = "draftVendorEmail" ->
           [t |-> "object",
            subject |-> DemoText("Action Required: Payment Issue - Invoice", id),
            body |-> DemoText("Dear Team, ... Accounts Payable (Demo)", id)]
      [] op = "validateRectification" ->
           Text(<<"APPROVED", ": (Demo) The proposed adjustment aligns with standard operating procedures for this error type.">>)
      [] op = "askTransactionQuestion" ->
           Str("I am currently running in **Demo Mode** because no API Key was provided.")
      [] op = "predictResolutionLikelihood" ->
           [t |-> "object", score |-> Num(85), label |-> Str("High"),
            rationale |-> Str("(Demo) High confidence based on historical resolution of similar routing errors.")]
      [] op = "generateAutoPilotPlan" -> DemoPlan

KeyPresent(key) == key.t = "string" /\ key # Str("")

\* C10: the effective credential is the user-configured key when one is set
\* (non-empty), otherwise the environment key; an operation takes its
\* no-credential branch exactly when neither is present, after any sequence
\* of setApiKey calls.
C10_CredentialPriority ==
    /\ [][(clientCall = NoCall /\ clientCall' # NoCall)
            => /\ (clientCall'.ai = Null)
                     <=> (~KeyPresent(userApiKey) /\ ~KeyPresent(envApiKey))
               /\ KeyPresent(userApiKey) => clientCall'.ai.apiKey = userApiKey
               /\ (~KeyPresent(userApiKey) /\ KeyPresent(envApiKey))
                     => clientCall'.ai.apiKey = envApiKey]_vars
    /\ [](clientResult # NoCall
            => ((clientResult.value = DemoResult(clientResult.op, clientResult.transaction))
                  <=> clientResult.ai = Null))

\* a call made after the user key was set and cleared again falls back to
\* the environment key
C10_Witness ==
    /\ userApiKey = Str("")
    /\ localStorage = Null
    /\ KeyPresent(envApiKey)
    /\ clientResult # NoCall
    /\ clientResult.ai # Null
    /\ clientResult.ai.apiKey = envApiKey

\* C11: the user-configured credential persists across sessions: a session
\* that follows setApiKey(k) with a non-empty k starts with user credential
\* k, one that follows setApiKey("") starts with no user credential.
C11_CredentialPersists ==
    session # FirstSession
        => session.restored = IF KeyPresent(session.previous) THEN session.previous
                              ELSE Null

\* a key that only setApiKey can have stored is restored
C11_Witness ==
    /\ session # FirstSession
    /\ session.previous = Str("AIza-new")
    /\ session.restored = Str("AIza-new")
    /\ userApiKey = Str("AIza-new")

\* a cleared key stays cleared
C11_WitnessCleared ==
    /\ session # FirstSession
    /\ session.previous = Str("")
    /\ session.restored = Null

---------------------------------------------------------------------------
(* Properties of the panel and the runner, checked under Spec *)

\* the action tags of the steps of a plan, in order
StepActions(plan) == [k \in 1..NumSteps(plan) |-> Prop(plan.steps.items[k], "action")]

\* the audit-log entries run r appended, in the order it appended them
EntriesOf(run) == [k \in 1..Len(run.logged) |-> auditLogs[run.logged[k]]]

DemoRunEntries(id) ==
    <<LogEntry(id, AgentRole.SYSTEM, "Auto-Pilot: Analysis"),
      LogEntry(id, AgentRole.SYSTEM, "Auto-Pilot: Contact"),
      LogEntry(id, AgentRole.SYSTEM, "Auto-Pilot: Status Update")>>

\* C12: with no credential, generateAutoPilotPlan returns for every
\* transaction the three steps ANALYZE, EMAIL_VENDOR, RECTIFY in that order;
\* a run then appends exactly three SYSTEM entries (analysis, contact, status
\* update) in that order and leaves its transaction in status RECTIFYING.
C12_DemoRunIsThreeSteps ==
    /\ [](~Truthy(getClient)
            => \A r \in DOMAIN runs :
                  /\ runs[r].pc # "fault"
                  /\ StepActions(runs[r].plan)
                        = <<Str("ANALYZE"), Str("EMAIL_VENDOR"), Str("RECTIFY")>>
                  /\ Len(runs[r].logged) <= 3
                  /\ EntriesOf(runs[r])
                        = SubSeq(DemoRunEntries(runs[r].transaction), 1, Len(runs[r].logged))
                  /\ runs[r].pc = "done" => Len(runs[r].logged) = 3)
    /\ [][\A r \in 1..MaxRuns :
             (~Truthy(getClient) /\ Completes(r))
                 => transactions'[runs'[r].transaction] = "RECTIFYING"]_vars

C12_Witness ==
    /\ ~Truthy(getClient)
    /\ \E r \in DOMAIN runs :
          /\ runs[r].pc = "done"
          /\ EntriesOf(runs[r]) = DemoRunEntries(runs[r].transaction)
          /\ transactions[runs[r].transaction] = "RECTIFYING"
          /\ selectedId # runs[r].transaction

\* the text has the word APPROVED somewhere in it
ContainsApproved(text) ==
    /\ "parts" \in DOMAIN text
    /\ \E k \in DOMAIN text.parts : text.parts[k] = "APPROVED"

\* call c is resumed by its agent operation in this step
Settles(c, handler) ==
    /\ c \in DOMAIN calls
    /\ calls[c].handler = handler
    /\ calls[c].pc = "call"
    /\ calls'[c].pc # "call"

\* the log grows by exactly one entry, of this transaction and role
AppendsOne(id, role) ==
    /\ Len(auditLogs') = Len(auditLogs) + 1
    /\ SubSeq(auditLogs', 1, Len(auditLogs)) = auditLogs
    /\ auditLogs'[Len(auditLogs')].transactionId = id
    /\ auditLogs'[Len(auditLogs')].agent = role

\* C13: handleRectify with a non-empty note sets the transaction's status to
\* RECTIFIED if and only if the validateRectification result contains
\* "APPROVED"; for any other result (the call-failure and empty-response
\* fallbacks included) the status is left unchanged; in both cases exactly
\* one CONTROLLER entry is appended.
C13_RectifiedIffApproved ==
    [][\A c \in 1..MaxCalls :
          Settles(c, "handleRectify")
              => /\ calls[c].note # Str("")
                 /\ IF ContainsApproved(calls'[c].result)
                    THEN transactions' = [transactions EXCEPT
                                             ![calls[c].transaction] = "RECTIFIED"]
                    ELSE transactions' = transactions
                 /\ AppendsOne(calls[c].transaction, AgentRole.CONTROLLER)]_vars

\* approved by a text that has the word after a negation
C13_Witness ==
    \E c \in DOMAIN calls :
        /\ calls[c].handler = "handleRectify"
        /\ calls[c].pc = "done"
        /\ calls[c].result = Text(<<"NOT ", "APPROVED", ": the amounts still differ.">>)
        /\ transactions[calls[c].transaction] = "RECTIFIED"
        /\ auditLogs[Len(auditLogs)].agent = AgentRole.CONTROLLER

\* the model call failed: the fallback text leaves the status alone
C13_WitnessRejected ==
    \E c \in DOMAIN calls :
        /\ calls[c].handler = "handleRectify"
        /\ calls[c].pc = "done"
        /\ calls[c].result = Str("Error validating rectification.")
        /\ transactions[calls[c].transaction] = "RECTIFYING"
        /\ auditLogs[Len(auditLogs)].action = "Rectification Rejected"

\* run r is started in this step
Starts(r) == r \notin DOMAIN runs /\ r \in DOMAIN runs'

\* C14: an auto-pilot run is started only on a transaction whose status is
\* FAILED: the trigger is enabled only if the selected transaction is FAILED,
\* and every run begins on the selected transaction while it is FAILED.
C14_RunStartsOnFailedOnly ==
    /\ [](AutoResolveEnabled => transactions[selectedId] = "FAILED")
    /\ [][\A r \in 1..MaxRuns :
             Starts(r) => /\ runs'[r].transaction = selectedId
                          /\ transactions[selectedId] = "FAILED"]_vars

\* a run just started in live mode, its plan still awaited
C14_Witness ==
    \E r \in DOMAIN runs :
        /\ runs[r].pc = "plan"
        /\ runs[r].transaction = selectedId
        /\ transactions[selectedId] = "FAILED"
        /\ autoPilotActive

\* a prediction that arrived late is shown on a transaction that is not
\* FAILED, and the trigger is not offered
C14_WitnessStalePrediction ==
    /\ transactions[selectedId] # "FAILED"
    /\ Truthy(prediction)
    /\ ~autoPilotActive
    /\ ~AutoResolveEnabled

\* run r is suspended in step i of its plan, whose action tag is this one
InStep(r, pc, tag) ==
    /\ r \in DOMAIN runs
    /\ runs[r].pc = pc
    /\ Prop(CurrentStep(runs[r]), "action") = Str(tag)

\* C15: each step is dispatched by its action tag: ANALYZE invokes
\* analyzeFailure (and no other operation) and sets the analysis view state
\* to its result; EMAIL_VENDOR invokes draftVendorEmail (and no other) and
\* sets the email-draft view state to its result; RECTIFY invokes no
\* operation and sets the transaction's status to RECTIFYING.
C15_DispatchByActionTag ==
    [][\A r \in 1..MaxRuns :
          /\ (InStep(r, "timer", "ANALYZE") /\ runs'[r] # runs[r])
                => /\ runs'[r].pc = "call"
                   /\ runs'[r].invoked = Append(runs[r].invoked, "analyzeFailure")
          /\ (InStep(r, "call", "ANALYZE") /\ runs'[r] # runs[r])
                => /\ runs'[r].invoked = runs[r].invoked
                   /\ analysis' = runs'[r].result
          /\ (InStep(r, "timer", "EMAIL_VENDOR") /\ runs'[r] # runs[r])
                => /\ runs'[r].pc = "call"
                   /\ runs'[r].invoked = Append(runs[r].invoked, "draftVendorEmail")
          /\ (InStep(r, "call", "EMAIL_VENDOR") /\ runs'[r] # runs[r])
                => /\ runs'[r].invoked = runs[r].invoked
                   /\ emailDraft' = runs'[r].result
          /\ (InStep(r, "timer", "RECTIFY") /\ runs'[r] # runs[r])
                => /\ runs'[r].invoked = runs[r].invoked
                   /\ runs'[r].pc # "call"
                   /\ transactions'[runs[r].transaction] = "RECTIFYING"]_vars

\* the part of C15 about which operation a tag invokes, and the view state
\* for a step that is not cut short by an exception
DispatchOfCompletedSteps ==
    [][\A r \in 1..MaxRuns :
          /\ (InStep(r, "timer", "ANALYZE") /\ runs'[r] # runs[r])
                => runs'[r].invoked = Append(runs[r].invoked, "analyzeFailure")
          /\ (InStep(r, "call", "ANALYZE") /\ runs'[r] # runs[r])
                => analysis' = runs'[r].result
          /\ (InStep(r, "timer", "EMAIL_VENDOR") /\ runs'[r] # runs[r])
                => runs'[r].invoked = Append(runs[r].invoked, "draftVendorEmail")
          /\ (InStep(r, "call", "EMAIL_VENDOR") /\ runs'[r] # runs[r]
                 /\ runs'[r].pc # "fault")
                => emailDraft' = runs'[r].result
          /\ (InStep(r, "timer", "RECTIFY") /\ runs'[r] # runs[r])
                => /\ runs'[r].invoked = runs[r].invoked
                   /\ transactions'[runs[r].transaction] = "RECTIFYING"]_vars

\* run r is in flight: started and not yet ended
InFlight(r) == r \in DOMAIN runs /\ ~Ended(runs[r])

\* the state of the panel the user sees
Visible == <<analysis, emailDraft, currentStepIndex, loading, autoPilotPlan>>

\* C16: when the selection is switched while a run is in flight, the visible
\* panel state (analysis, email draft, step index, loading, plan) is the
\* reset state after the switch, and the old run never changes it afterwards.
C16_SwitchedRunIsNoOp ==
    [][\A r \in 1..MaxRuns :
          /\ (InFlight(r) /\ selectedId' # selectedId)
                => Visible' = <<Null, Null, -1, FALSE, Null>>
          /\ (InFlight(r) /\ runs'[r] # runs[r] /\ selectedId # runs[r].transaction)
                => Visible' = Visible]_vars

\* C17: every status update the panel issues (manual draft, manual
\* rectification, RECTIFY step) is applied to the transaction selected at the
\* moment it is applied, and to no other.
C17_StatusUpdateHitsSelected ==
    [][\A id \in TxnIds :
          transactions'[id] # transactions[id] => id = selectedId]_vars

\* C18: the audit log is append-only: every step leaves the log it found as
\* a prefix of the log it leaves.
C18_AuditLogAppendOnly ==
    [][/\ Len(auditLogs') >= Len(auditLogs)
       /\ SubSeq(auditLogs', 1, Len(auditLogs)) = auditLogs]_vars

\* entries of a manual action and of a run, the run's appended after the
\* selection moved away from its transaction, behind the seed entries
C18_Witness ==
    /\ Len(auditLogs) >= Len(INITIAL_AUDIT_LOGS) + 2
    /\ SubSeq(auditLogs, 1, Len(INITIAL_AUDIT_LOGS)) = INITIAL_AUDIT_LOGS
    /\ \E c \in DOMAIN calls : calls[c].pc = "done"
    /\ \E r \in DOMAIN runs :
          /\ runs[r].pc = "done"
          /\ Len(runs[r].logged) > 0
          /\ selectedId # runs[r].transaction

\* C19: every audit-log entry's transactionId is the id of a transaction in
\* the transaction list, entries of runs that finish after the selection
\* changed included.
C19_LogEntriesReferToTransactions ==
    \A k \in DOMAIN auditLogs : auditLogs[k].transactionId \in DOMAIN transactions

\* the last entry is of a run that finished on a transaction no longer
\* selected
C19_Witness ==
    \E r \in DOMAIN runs :
        /\ runs[r].pc = "done"
        /\ Len(runs[r].logged) > 0
        /\ runs[r].logged[Len(runs[r].logged)] = Len(auditLogs)
        /\ auditLogs[Len(auditLogs)].transactionId = runs[r].transaction
        /\ selectedId # runs[r].transaction

\* run r leaves step i in this step of the behaviour: the step's branch has
\* run to its end, or was cut short
LeavesStep(r) ==
    /\ r \in DOMAIN runs
    /\ runs[r].pc \in {"timer", "call"}
    /\ runs'[r].pc # runs[r].pc
    /\ ~(runs[r].pc = "timer" /\ runs'[r].pc = "call")

\* C20: every completed agent action appends exactly one entry tagged with
\* the role of its persona: manual analysis one AUDITOR entry, manual draft
\* and send one LIAISON entry each, rectification validation one CONTROLLER
\* entry, every auto-pilot step one SYSTEM entry.
C20_OneEntryPerAction ==
    [][/\ \A c \in 1..MaxCalls :
             /\ Settles(c, "handleAnalyze")
                   => AppendsOne(calls[c].transaction, AgentRole.AUDITOR)
             /\ Settles(c, "handleDraftEmail")
                   => AppendsOne(calls[c].transaction, AgentRole.LIAISON)
             /\ Settles(c, "handleRectify")
                   => AppendsOne(calls[c].transaction, AgentRole.CONTROLLER)
       /\ HandleSendEmail => AppendsOne(selectedId, AgentRole.LIAISON)
       /\ \A r \in 1..MaxRuns :
             LeavesStep(r) => AppendsOne(runs[r].transaction, AgentRole.SYSTEM)]_vars

\* the part of C20 that holds: the manual analysis, the send, the validation
\* and every step with a known tag that ran to its end
OneEntryPerFinishedAction ==
    [][/\ \A c \in 1..MaxCalls :
             /\ Settles(c, "handleAnalyze")
                   => AppendsOne(calls[c].transaction, AgentRole.AUDITOR)
             /\ (Settles(c, "handleDraftEmail") /\ calls'[c].pc = "done")
                   => AppendsOne(calls[c].transaction, AgentRole.LIAISON)
             /\ Settles(c, "handleRectify")
                   => AppendsOne(calls[c].transaction, AgentRole.CONTROLLER)
       /\ HandleSendEmail => AppendsOne(selectedId, AgentRole.LIAISON)
       /\ \A r \in 1..MaxRuns :
             (LeavesStep(r) /\ runs'[r].pc # "fault"
                /\ Prop(CurrentStep(runs[r]), "action") \in {Str(a) : a \in PlanActions})
                 => AppendsOne(runs[r].transaction, AgentRole.SYSTEM)]_vars

---------------------------------------------------------------------------
(* Order of the steps of a run, checked under Spec *)

\* the tags of the first n steps of the plan of a run
TagsUpTo(run, n) == [k \in 1..n |-> Prop(run.plan.steps.items[k], "action")]

IsKnownTag(tag) == tag \in {Str(a) : a \in PlanActions}
IsCallTag(tag) == tag \in {Str("ANALYZE"), Str("EMAIL_VENDOR")}

\* the operation a tag stands for
OperationOfTag(tag) == IF tag = Str("ANALYZE") THEN "analyzeFailure" ELSE "draftVendorEmail"

\* the operations the first n steps call, in order
OperationsUpTo(run, n) ==
    LET called == SelectSeq(TagsUpTo(run, n), IsCallTag)
    IN  [k \in 1..Len(called) |-> OperationOfTag(called[k])]

\* the number of steps whose action has begun
StepsBegun(run) == IF run.pc = "call" THEN run.i + 1 ELSE run.i

\* C21: within one run the step loop is strictly sequential: when step i is
\* current, every earlier step has completed and appended its entry, step i
\* has appended none, and no operation of a later step has been called; the
\* index moves one step at a time.
C21_StepsAreSequential ==
    /\ [](\A r \in DOMAIN runs :
            runs[r].pc \in {"timer", "call", "done"}
                => /\ Len(runs[r].logged)
                        = Len(SelectSeq(TagsUpTo(runs[r], runs[r].i), IsKnownTag))
                   /\ runs[r].invoked = OperationsUpTo(runs[r], StepsBegun(runs[r])))
    /\ [][\A r \in 1..MaxRuns :
             (r \in DOMAIN runs /\ runs[r].pc \in {"timer", "call"})
                 => runs'[r].i \in {runs[r].i, runs[r].i + 1}]_vars

\* the third step of a run is awaited: two entries appended, two operations
\* called, the selection elsewhere
C21_Witness ==
    \E r \in DOMAIN runs :
        /\ runs[r].pc = "timer"
        /\ runs[r].i = 2
        /\ Len(runs[r].logged) = 2
        /\ runs[r].invoked = <<"analyzeFailure", "draftVendorEmail">>
        /\ selectedId # runs[r].transaction

\* run r moves from step i to step i + 1, or to Done, in this step
Advances(r) ==
    /\ r \in DOMAIN runs
    /\ runs[r].pc \in {"timer", "call"}
    /\ runs'[r].i = runs[r].i + 1

\* the tag of the step run r is in
TagOf(r) == Prop(CurrentStep(runs[r]), "action")

\* the entries run has appended when the actions of its first n steps are
\* complete
EntriesAfter(run, n) == Len(SelectSeq(TagsUpTo(run, n), IsKnownTag))

\* C22: the step index advances from i to i + 1, or the run goes to Done,
\* only after the action for step i has completed and a fixed delay has then
\* elapsed: the advance is the end of a delay that began with the action
\* already complete.
C22_AdvanceAfterActionThenDelay ==
    [][\A r \in 1..MaxRuns :
          (Advances(r) /\ IsKnownTag(TagOf(r)))
              => /\ runs[r].pc = "timer"
                 /\ Len(runs[r].logged) = EntriesAfter(runs[r], runs[r].i + 1)]_vars

\* C22 as the code has it: the fixed delay of step i comes first, the action
\* of step i begins when it has elapsed, and the index advances (or the run
\* goes to Done) in the task in which that action completes, with no delay
\* after it.
C22_AdvanceAfterDelayThenAction ==
    [][\A r \in 1..MaxRuns :
          /\ (Advances(r) /\ IsKnownTag(TagOf(r)))
                => /\ runs[r].pc = IF IsCallTag(TagOf(r)) THEN "call" ELSE "timer"
                   /\ Len(runs[r].logged) = EntriesAfter(runs[r], runs[r].i)
                   /\ Len(runs'[r].logged) = EntriesAfter(runs[r], runs[r].i + 1)
          /\ (r \in DOMAIN runs' /\ runs'[r].pc = "call"
                 /\ (r \in DOMAIN runs => runs[r].pc # "call"))
                => /\ r \in DOMAIN runs
                   /\ runs[r].pc = "timer"
                   /\ runs'[r].i = runs[r].i]_vars

\* the analysis of step 0 has arrived and the panel is already at step 1
C22_Witness ==
    \E r \in DOMAIN runs :
        /\ runs[r].pc = "timer"
        /\ runs[r].i = 1
        /\ Len(runs[r].logged) = 1
        /\ runs[r].transaction = selectedId
        /\ analysis = runs[r].result
        /\ currentStepIndex = 1

---------------------------------------------------------------------------
(* Status of a transaction, checked under SpecDemo *)

\* C23: under any interleaving of manual actions, runs and selections a
\* transaction's status changes only from FAILED to RECTIFYING and from
\* RECTIFYING to RECTIFIED: a CLEARED one never changes and a RECTIFIED one
\* is never moved back to RECTIFYING.
C23_StatusOnlyAdvances ==
    [][\A id \in TxnIds :
          transactions'[id] # transactions[id]
              => <<transactions[id], transactions'[id]>>
                    \in {<<"FAILED", "RECTIFYING">>, <<"RECTIFYING", "RECTIFIED">>}]_vars

---------------------------------------------------------------------------
(* Runs, manual actions and selections interleaved, checked under Spec *)

\* C24: all effects of a run target the transaction that was selected when
\* the run was started: every entry it appends carries that id and its
\* RECTIFY step changes that transaction's status, whatever is selected by
\* then.
C24_RunTargetsItsTransaction ==
    /\ [](\A r \in DOMAIN runs : \A k \in DOMAIN runs[r].logged :
            auditLogs[runs[r].logged[k]].transactionId = runs[r].transaction)
    /\ [][\A r \in 1..MaxRuns :
             /\ Starts(r) => runs'[r].transaction = selectedId
             /\ (r \in DOMAIN runs) => runs'[r].transaction = runs[r].transaction
             /\ (InStep(r, "timer", "RECTIFY") /\ runs'[r] # runs[r])
                   => transactions' = [transactions EXCEPT
                                          ![runs[r].transaction] = "RECTIFYING"]]_vars

\* the RECTIFY step has run while another FAILED transaction was selected:
\* that one is still FAILED
C24_Witness ==
    \E r \in DOMAIN runs :
        /\ runs[r].pc = "done"
        /\ Len(runs[r].logged) > 0
        /\ auditLogs[runs[r].logged[Len(runs[r].logged)]]
              = LogEntry(runs[r].transaction, AgentRole.SYSTEM, "Auto-Pilot: Status Update")
        /\ transactions[runs[r].transaction] = "RECTIFYING"
        /\ selectedId # runs[r].transaction
        /\ transactions[selectedId] = "FAILED"

\* C25: at most one run is in flight at any time: while a run has not
\* reached Done the auto-resolve trigger is not enabled, also after the user
\* selects another transaction and re-selects the original one.
C25_NoTriggerWhileRunInFlight ==
    \A r \in DOMAIN runs : InFlight(r) => ~AutoResolveEnabled

\* a background prediction settles in this step
PredictionSettles(k) ==
    /\ k \in DOMAIN predictions
    /\ predictions' = RemoveAt(predictions, k)

\* C26: a prediction held in the panel is the result of
\* predictResolutionLikelihood for the selected transaction: a response that
\* arrives after the selection has changed is not stored.
C26_PredictionIsOfSelected ==
    [][\A k \in 1..MaxPending :
          (PredictionSettles(k) /\ predictions[k].transaction # selectedId)
              => prediction' = prediction]_vars

\* an agent call of a manual handler or of a run is awaited
CallInFlight ==
    \/ \E c \in DOMAIN calls : calls[c].pc = "call"
    \/ \E r \in DOMAIN runs : runs[r].pc \in {"plan", "call"}

\* a handler is between its first and its last statement: a manual call is
\* awaited, or a run is in its plan call, a step delay or a step call
HandlerInProgress ==
    \/ \E c \in DOMAIN calls : calls[c].pc = "call"
    \/ \E r \in DOMAIN runs : InFlight(r)

\* C27: the loading flag is true whenever an agent call started by a handler
\* is in flight, and false once no handler is in progress any more, under
\* any interleaving of the handlers.
C27_LoadingIffCallInFlight ==
    /\ CallInFlight => loading
    /\ ~HandlerInProgress => ~loading

\* the first half alone: an awaited agent call implies loading
LoadingWhileCallInFlight == CallInFlight => loading

\* the second half alone: loading implies a handler in progress
IdleWhenNoHandler == ~HandlerInProgress => ~loading

\* C28: after a manual handleDraftEmail completes on a FAILED transaction the
\* status is RECTIFYING and the returned draft is the email-draft view state
\* once the state has settled (the reset effect of the status change
\* included), so that it can be sent.
C28_DraftSurvivesStatusChange ==
    [][\A c \in 1..MaxCalls :
          (Settles(c, "handleDraftEmail")
             /\ calls'[c].pc = "done"
             /\ Truthy(calls'[c].result)
             /\ transactions[calls[c].transaction] = "FAILED"
             /\ selectedId = calls[c].transaction)
              => /\ transactions'[calls[c].transaction] = "RECTIFYING"
                 /\ emailDraft' = calls'[c].result]_vars

\* C29: a run never clears the auto-pilot-active flag itself: set at the
\* start of the run, it stays true until the selected transaction's id or
\* status changes, and while it is true no action button is rendered.
C29_FlagClearedOnlyByReset ==
    /\ [][/\ \A r \in 1..MaxRuns : Starts(r) => autoPilotActive'
          /\ (autoPilotActive /\ ~autoPilotActive')
                => <<selectedId', transactions'[selectedId']>>
                     # <<selectedId, transactions[selectedId]>>]_vars
    /\ [](autoPilotActive => (~ManualEnabled /\ ~RectifyEnabled /\ ~AutoResolveEnabled))

\* a run without a RECTIFY step is done and the FAILED transaction it ran on
\* still shows the auto-pilot as active
C29_Witness ==
    \E r \in DOMAIN runs :
        /\ runs[r].pc = "done"
        /\ NumSteps(runs[r].plan) = 1
        /\ runs[r].transaction = selectedId
        /\ transactions[selectedId] = "FAILED"
        /\ ~loading
        /\ autoPilotActive

---------------------------------------------------------------------------
(* Credential store, checked under SpecClient *)

\* C30: after any sequence of setApiKey calls the in-memory user credential
\* and localStorage agree: storage holds k iff the credential is the
\* non-empty key k, and holds nothing iff the credential is empty or null.
C30_MemoryAndStorageAgree ==
    /\ (localStorage = Null) <=> ~KeyPresent(userApiKey)
    /\ (localStorage # Null) => localStorage = userApiKey

\* a key set in an earlier session and cleared in this one
C30_Witness ==
    /\ session # FirstSession
    /\ session.restored = Str("AIza-new")
    /\ userApiKey = Str("")
    /\ localStorage = Null


====
